---- MODULE Spec2Model ----
(***************************************************************************)
(* Model of the Braille conversion engine of vibe_braille                  *)
(* (src/src/converters/BrailleConverter.ts): dotsToUnicode,                *)
(* detectLanguage and convertToBraille with its four lookup tables.        *)
(*                                                                         *)
(* A character is a Unicode code point (a natural number): the loop        *)
(* `for (const char of text)` iterates a string by code point, so a text   *)
(* is the sequence of its code points.  The unicode field of a record is   *)
(* the code unit String.fromCharCode returns, again a number.              *)
(***************************************************************************)
EXTENDS Integers, Sequences, FiniteSets, TLC

(***************************************************************************)
(* Bounds of the model.                                                    *)
(***************************************************************************)
MaxLen == 3     \* longest text drawn from CoreAlphabet
MaxDots == 3    \* longest dot list handed to dotsToUnicode directly

(***************************************************************************)
(* Program constants.                                                      *)
(***************************************************************************)
BrailleBase == 10240    \* 0x2800, `let code = 0x2800`
Space == 32             \* ' '
Tab == 9                \* '\t'
Newline == 10           \* '\n'

undefined == "undefined"   \* the omitted language argument
Languages == {"korean", "english", "japanese"}

(***************************************************************************)
(* The character classes of the regular expressions.                       *)
(***************************************************************************)
koreanPattern == 44032..55203                            \* /[U+AC00-U+D7A3]/
japanesePattern == (12352..12447) \cup (12448..12543)    \* /[U+3040-U+309F U+30A0-U+30FF]/
englishPattern == (97..122) \cup (65..90)                \* /[a-zA-Z]/
alnumPattern == (97..122) \cup (65..90) \cup (48..57)    \* /[a-zA-Z0-9]/

\* RegExp.prototype.test for a one-class pattern: some character of the
\* text is in the class.  (A code point above U+FFFF is two surrogate code
\* units, U+D800..U+DFFF, which are in none of the classes above.)
test(pattern, text) == \E i \in 1..Len(text) : text[i] \in pattern

(***************************************************************************)
(* The lookup tables, one entry per line of the source literal.            *)
(***************************************************************************)
koreanBrailleMap ==
     (12593 :> <<1, 4>>)                  \* U+3131
  @@ (12596 :> <<1, 4, 5>>)               \* U+3134
  @@ (12599 :> <<2, 4>>)                  \* U+3137
  @@ (12601 :> <<5>>)                     \* U+3139
  @@ (12609 :> <<1, 5>>)                  \* U+3141
  @@ (12610 :> <<1, 2>>)                  \* U+3142
  @@ (12613 :> <<6>>)                     \* U+3145
  @@ (12615 :> <<1, 2, 4, 5, 6>>)         \* U+3147
  @@ (12616 :> <<4>>)                     \* U+3148
  @@ (12618 :> <<5, 6>>)                  \* U+314A
  @@ (12619 :> <<1, 2, 5>>)               \* U+314B
  @@ (12620 :> <<1, 2, 5, 6>>)            \* U+314C
  @@ (12621 :> <<1, 4, 5, 6>>)            \* U+314D
  @@ (12622 :> <<2, 5, 6>>)               \* U+314E
  @@ (12623 :> <<1, 2, 6>>)               \* U+314F
  @@ (12625 :> <<3, 4, 5>>)               \* U+3151
  @@ (12627 :> <<2, 3, 4>>)               \* U+3153
  @@ (12629 :> <<1, 3, 6>>)               \* U+3155
  @@ (12631 :> <<1, 3, 6>>)               \* U+3157
  @@ (12635 :> <<3, 4, 6>>)               \* U+315B
  @@ (12636 :> <<1, 3, 4>>)               \* U+315C
  @@ (12640 :> <<1, 3, 4, 6>>)            \* U+3160
  @@ (12641 :> <<2, 4, 6>>)               \* U+3161
  @@ (12643 :> <<1, 3, 5>>)               \* U+3163
  @@ (50504 :> <<1, 2, 4, 5, 6>>)         \* U+C548
  @@ (45397 :> <<1, 4, 5, 1, 2, 6>>)      \* U+B155
  @@ (54616 :> <<2, 5, 6, 1, 2, 6>>)      \* U+D558
  @@ (49464 :> <<6, 2, 3, 4>>)            \* U+C138
  @@ (50836 :> <<3, 4, 6>>)               \* U+C694

englishBrailleMap ==
     (97 :> <<1>>)                        \* 'a'
  @@ (98 :> <<1, 2>>)                     \* 'b'
  @@ (99 :> <<1, 4>>)                     \* 'c'
  @@ (100 :> <<1, 4, 5>>)                 \* 'd'
  @@ (101 :> <<1, 5>>)                    \* 'e'
  @@ (102 :> <<1, 2, 4>>)                 \* 'f'
  @@ (103 :> <<1, 2, 4, 5>>)              \* 'g'
  @@ (104 :> <<1, 2, 5>>)                 \* 'h'
  @@ (105 :> <<2, 4>>)                    \* 'i'
  @@ (106 :> <<2, 4, 5>>)                 \* 'j'
  @@ (107 :> <<1, 3>>)                    \* 'k'
  @@ (108 :> <<1, 2, 3>>)                 \* 'l'
  @@ (109 :> <<1, 3, 4>>)                 \* 'm'
  @@ (110 :> <<1, 3, 4, 5>>)              \* 'n'
  @@ (111 :> <<1, 3, 5>>)                 \* 'o'
  @@ (112 :> <<1, 2, 3, 4>>)              \* 'p'
  @@ (113 :> <<1, 2, 3, 4, 5>>)           \* 'q'
  @@ (114 :> <<1, 2, 3, 5>>)              \* 'r'
  @@ (115 :> <<2, 3, 4>>)                 \* 's'
  @@ (116 :> <<2, 3, 4, 5>>)              \* 't'
  @@ (117 :> <<1, 3, 6>>)                 \* 'u'
  @@ (118 :> <<1, 2, 3, 6>>)              \* 'v'
  @@ (119 :> <<2, 4, 5, 6>>)              \* 'w'
  @@ (120 :> <<1, 3, 4, 6>>)              \* 'x'
  @@ (121 :> <<1, 3, 4, 5, 6>>)           \* 'y'
  @@ (122 :> <<1, 3, 5, 6>>)              \* 'z'
  @@ (65 :> <<6, 1>>)                     \* 'A'
  @@ (66 :> <<6, 1, 2>>)                  \* 'B'
  @@ (67 :> <<6, 1, 4>>)                  \* 'C'
  @@ (68 :> <<6, 1, 4, 5>>)               \* 'D'
  @@ (69 :> <<6, 1, 5>>)                  \* 'E'
  @@ (70 :> <<6, 1, 2, 4>>)               \* 'F'
  @@ (71 :> <<6, 1, 2, 4, 5>>)            \* 'G'
  @@ (72 :> <<6, 1, 2, 5>>)               \* 'H'
  @@ (73 :> <<6, 2, 4>>)                  \* 'I'
  @@ (74 :> <<6, 2, 4, 5>>)               \* 'J'
  @@ (75 :> <<6, 1, 3>>)                  \* 'K'
  @@ (76 :> <<6, 1, 2, 3>>)               \* 'L'
  @@ (77 :> <<6, 1, 3, 4>>)               \* 'M'
  @@ (78 :> <<6, 1, 3, 4, 5>>)            \* 'N'
  @@ (79 :> <<6, 1, 3, 5>>)               \* 'O'
  @@ (80 :> <<6, 1, 2, 3, 4>>)            \* 'P'
  @@ (81 :> <<6, 1, 2, 3, 4, 5>>)         \* 'Q'
  @@ (82 :> <<6, 1, 2, 3, 5>>)            \* 'R'
  @@ (83 :> <<6, 2, 3, 4>>)               \* 'S'
  @@ (84 :> <<6, 2, 3, 4, 5>>)            \* 'T'
  @@ (85 :> <<6, 1, 3, 6>>)               \* 'U'
  @@ (86 :> <<6, 1, 2, 3, 6>>)            \* 'V'
  @@ (87 :> <<6, 2, 4, 5, 6>>)            \* 'W'
  @@ (88 :> <<6, 1, 3, 4, 6>>)            \* 'X'
  @@ (89 :> <<6, 1, 3, 4, 5, 6>>)         \* 'Y'
  @@ (90 :> <<6, 1, 3, 5, 6>>)            \* 'Z'
  @@ (49 :> <<3, 4, 5, 6, 1>>)            \* '1'
  @@ (50 :> <<3, 4, 5, 6, 1, 2>>)         \* '2'
  @@ (51 :> <<3, 4, 5, 6, 1, 4>>)         \* '3'
  @@ (52 :> <<3, 4, 5, 6, 1, 4, 5>>)      \* '4'
  @@ (53 :> <<3, 4, 5, 6, 1, 5>>)         \* '5'
  @@ (54 :> <<3, 4, 5, 6, 1, 2, 4>>)      \* '6'
  @@ (55 :> <<3, 4, 5, 6, 1, 2, 4, 5>>)   \* '7'
  @@ (56 :> <<3, 4, 5, 6, 1, 2, 5>>)      \* '8'
  @@ (57 :> <<3, 4, 5, 6, 2, 4>>)         \* '9'
  @@ (48 :> <<3, 4, 5, 6, 2, 4, 5>>)      \* '0'

japaneseBrailleMap ==
     (12354 :> <<1>>)                     \* U+3042
  @@ (12356 :> <<1, 2>>)                  \* U+3044
  @@ (12358 :> <<1, 4>>)                  \* U+3046
  @@ (12360 :> <<1, 2, 4>>)               \* U+3048
  @@ (12362 :> <<2, 4>>)                  \* U+304A
  @@ (12363 :> <<1, 6>>)                  \* U+304B
  @@ (12365 :> <<1, 2, 6>>)               \* U+304D
  @@ (12367 :> <<1, 4, 6>>)               \* U+304F
  @@ (12369 :> <<1, 2, 4, 6>>)            \* U+3051
  @@ (12371 :> <<2, 4, 6>>)               \* U+3053
  @@ (12373 :> <<1, 5, 6>>)               \* U+3055
  @@ (12375 :> <<1, 2, 5, 6>>)            \* U+3057
  @@ (12377 :> <<1, 4, 5, 6>>)            \* U+3059
  @@ (12379 :> <<1, 2, 4, 5, 6>>)         \* U+305B
  @@ (12381 :> <<2, 4, 5, 6>>)            \* U+305D
  @@ (12383 :> <<1, 3, 6>>)               \* U+305F
  @@ (12385 :> <<1, 2, 3, 6>>)            \* U+3061
  @@ (12388 :> <<1, 3, 4, 6>>)            \* U+3064
  @@ (12390 :> <<1, 2, 3, 4, 6>>)         \* U+3066
  @@ (12392 :> <<2, 3, 4, 6>>)            \* U+3068
  @@ (12394 :> <<1, 3, 5, 6>>)            \* U+306A
  @@ (12395 :> <<1, 2, 3, 5, 6>>)         \* U+306B
  @@ (12396 :> <<1, 3, 4, 5, 6>>)         \* U+306C
  @@ (12397 :> <<1, 2, 3, 4, 5, 6>>)      \* U+306D
  @@ (12398 :> <<2, 3, 4, 5, 6>>)         \* U+306E
  @@ (12399 :> <<1, 3>>)                  \* U+306F
  @@ (12402 :> <<1, 2, 3>>)               \* U+3072
  @@ (12405 :> <<1, 3, 4>>)               \* U+3075
  @@ (12408 :> <<1, 2, 3, 4>>)            \* U+3078
  @@ (12411 :> <<2, 3, 4>>)               \* U+307B
  @@ (12414 :> <<1, 3, 5>>)               \* U+307E
  @@ (12415 :> <<1, 2, 3, 5>>)            \* U+307F
  @@ (12416 :> <<1, 3, 4, 5>>)            \* U+3080
  @@ (12417 :> <<1, 2, 3, 4, 5>>)         \* U+3081
  @@ (12418 :> <<2, 3, 4, 5>>)            \* U+3082
  @@ (12420 :> <<3, 4>>)                  \* U+3084
  @@ (12422 :> <<3, 4, 6>>)               \* U+3086
  @@ (12424 :> <<3, 4, 5>>)               \* U+3088
  @@ (12425 :> <<1, 5>>)                  \* U+3089
  @@ (12426 :> <<1, 2, 5>>)               \* U+308A
  @@ (12427 :> <<1, 4, 5>>)               \* U+308B
  @@ (12428 :> <<1, 2, 4, 5>>)            \* U+308C
  @@ (12429 :> <<2, 4, 5>>)               \* U+308D
  @@ (12431 :> <<3>>)                     \* U+308F
  @@ (12435 :> <<3, 5, 6>>)               \* U+3093
  @@ (12450 :> <<1>>)                     \* U+30A2
  @@ (12452 :> <<1, 2>>)                  \* U+30A4
  @@ (12454 :> <<1, 4>>)                  \* U+30A6
  @@ (12456 :> <<1, 2, 4>>)               \* U+30A8
  @@ (12458 :> <<2, 4>>)                  \* U+30AA
  @@ (12459 :> <<1, 6>>)                  \* U+30AB
  @@ (12461 :> <<1, 2, 6>>)               \* U+30AD
  @@ (12463 :> <<1, 4, 6>>)               \* U+30AF
  @@ (12465 :> <<1, 2, 4, 6>>)            \* U+30B1
  @@ (12467 :> <<2, 4, 6>>)               \* U+30B3

\* Variant: the entry of '-' is typed [2, 6] instead of [3, 6].
punctuationMapHyphen ==
     (46 :> <<2, 5, 6>>) @@ (44 :> <<2>>) @@ (63 :> <<2, 6>>)
  @@ (33 :> <<2, 3, 5>>) @@ (58 :> <<2, 5>>) @@ (59 :> <<2, 3>>)
  @@ (45 :> <<2, 6>>) @@ (40 :> <<2, 3, 6>>) @@ (41 :> <<3, 5, 6>>)
  @@ (34 :> <<2, 3, 6>>) @@ (39 :> <<3>>)

punctuationMap ==
     (46 :> <<2, 5, 6>>)                  \* '.'
  @@ (44 :> <<2>>)                        \* ','
  @@ (63 :> <<2, 6>>)                     \* '?'
  @@ (33 :> <<2, 3, 5>>)                  \* '!'
  @@ (58 :> <<2, 5>>)                     \* ':'
  @@ (59 :> <<2, 3>>)                     \* ';'
  @@ (45 :> <<3, 6>>)                     \* '-'
  @@ (40 :> <<2, 3, 6>>)                  \* '('
  @@ (41 :> <<3, 5, 6>>)                  \* ')'
  @@ (34 :> <<2, 3, 6>>)                  \* '"'
  @@ (39 :> <<3>>)                        \* '''

(***************************************************************************)
(* dotsToUnicode                                                           *)
(***************************************************************************)
\* The switch of the loop body: the amount one dot adds to the code.
dotBit(dot) ==
  CASE dot = 1 -> 1
    [] dot = 2 -> 2
    [] dot = 3 -> 4
    [] dot = 4 -> 8
    [] dot = 5 -> 16
    [] dot = 6 -> 32
    [] dot = 7 -> 64
    [] dot = 8 -> 128
    [] OTHER -> 0

\* `for (const dot of dots) code += ...`
RECURSIVE addDots(_, _)
addDots(code, dots) ==
  IF dots = <<>> THEN code
  ELSE addDots(code + dotBit(Head(dots)), Tail(dots))

\* String.fromCharCode keeps the low 16 bits of its argument.
fromCharCode(code) == code % 65536

dotsToUnicode(dots) == fromCharCode(addDots(BrailleBase, dots))

(***************************************************************************)
(* detectLanguage                                                          *)
(***************************************************************************)
\* Variant: the `count > 1` test is left out, so the first script present wins.
detectLanguageFirstMatch(text) ==
  IF test(koreanPattern, text) THEN "korean"
  ELSE IF test(japanesePattern, text) THEN "japanese"
  ELSE "english"

detectLanguage(text) ==
  LET hasKorean == test(koreanPattern, text)
      hasJapanese == test(japanesePattern, text)
      hasEnglish == test(englishPattern, text)
      count == Cardinality({i \in 1..3 : <<hasKorean, hasJapanese, hasEnglish>>[i]})
  IN  IF count > 1 THEN "mixed"
      ELSE IF hasKorean THEN "korean"
      ELSE IF hasJapanese THEN "japanese"
      ELSE IF hasEnglish THEN "english"
      ELSE "english"

(***************************************************************************)
(* convertToBraille                                                        *)
(***************************************************************************)
\* A BraillePattern object.
BraillePattern(char, unicode, dots) ==
  [char |-> char, unicode |-> unicode, dots |-> dots]

\* `BraillePattern | null`: the empty sequence is null, <<p>> is the pattern p.
null == <<>>

\* `const dots = map[char]; if (dots) return {char, unicode, dots}; return null`
\* (an array is truthy, so the test is whether the table has the key).
\* char is one code point, and no inherited property of an object literal
\* has a name that short, so only the listed keys are found.
lookupChar(map, char) ==
  IF char \in DOMAIN map
  THEN <<BraillePattern(char, dotsToUnicode(map[char]), map[char])>>
  ELSE null

\* Variant: an uppercase letter is looked up as its lowercase letter.
convertEnglishCharLowered(char) ==
  IF char \in 65..90
  THEN <<BraillePattern(char, dotsToUnicode(englishBrailleMap[char + 32]),
                        englishBrailleMap[char + 32])>>
  ELSE lookupChar(englishBrailleMap, char)

\* Variant: the digit d takes the shape of the (d+1)-th letter (0=a, 1=b, ...).
convertEnglishCharDigitShift(char) ==
  IF char \in 48..57
  THEN LET dots == <<3, 4, 5, 6>> \o englishBrailleMap[char + 49]
       IN  <<BraillePattern(char, dotsToUnicode(dots), dots)>>
  ELSE lookupChar(englishBrailleMap, char)

convertKoreanChar(char) == lookupChar(koreanBrailleMap, char)
convertEnglishChar(char) == lookupChar(englishBrailleMap, char)
convertJapaneseChar(char) == lookupChar(japaneseBrailleMap, char)
convertPunctuation(char) == lookupChar(punctuationMap, char)

\* Variant: a miss in the table of the character's class is retried in the
\* other tables.
classifyCharRetry(char) ==
  LET first == IF char \in koreanPattern THEN convertKoreanChar(char)
               ELSE IF char \in japanesePattern THEN convertJapaneseChar(char)
               ELSE IF char \in alnumPattern THEN convertEnglishChar(char)
               ELSE convertPunctuation(char)
  IN  IF first # null THEN first
      ELSE IF convertKoreanChar(char) # null THEN convertKoreanChar(char)
      ELSE IF convertJapaneseChar(char) # null THEN convertJapaneseChar(char)
      ELSE IF convertEnglishChar(char) # null THEN convertEnglishChar(char)
      ELSE convertPunctuation(char)

\* Variant: the Hangul test also accepts the compatibility jamo U+3131..U+3163.
classifyCharJamo(char) ==
  IF char \in koreanPattern \cup (12593..12643) THEN convertKoreanChar(char)
  ELSE IF char \in japanesePattern THEN convertJapaneseChar(char)
  ELSE IF char \in alnumPattern THEN convertEnglishChar(char)
  ELSE convertPunctuation(char)

\* The classification chain of the loop body.
classifyChar(char) ==
  IF char \in koreanPattern THEN convertKoreanChar(char)
  ELSE IF char \in japanesePattern THEN convertJapaneseChar(char)
  ELSE IF char \in alnumPattern THEN convertEnglishChar(char)
  ELSE convertPunctuation(char)

\* Variant: the fallback record carries '?' instead of the input character.
convertCharQuestionMark(char) ==
  IF char = Space \/ char = Tab THEN BraillePattern(char, Space, <<>>)
  ELSE IF char = Newline THEN BraillePattern(char, Newline, <<>>)
  ELSE LET pattern == classifyChar(char)
       IN  IF pattern # null THEN pattern[1]
           ELSE BraillePattern(63, dotsToUnicode(<<2, 6>>), <<2, 6>>)

\* Variant: the fallback record shows the ASCII question mark.
convertCharAsciiFallback(char) ==
  IF char = Space \/ char = Tab THEN BraillePattern(char, Space, <<>>)
  ELSE IF char = Newline THEN BraillePattern(char, Newline, <<>>)
  ELSE LET pattern == classifyChar(char)
       IN  IF pattern # null THEN pattern[1]
           ELSE BraillePattern(char, 63, <<2, 6>>)

\* Variant: a blank record carries the input character as its unicode field.
convertCharTabKept(char) ==
  IF char = Space \/ char = Tab THEN BraillePattern(char, char, <<>>)
  ELSE IF char = Newline THEN BraillePattern(char, Newline, <<>>)
  ELSE LET pattern == classifyChar(char)
       IN  IF pattern # null THEN pattern[1]
           ELSE BraillePattern(char, dotsToUnicode(<<2, 6>>), <<2, 6>>)

\* One iteration of the loop: the record pushed for char.
convertChar(char) ==
  IF char = Space \/ char = Tab THEN BraillePattern(char, Space, <<>>)
  ELSE IF char = Newline THEN BraillePattern(char, Newline, <<>>)
  ELSE LET pattern == classifyChar(char)
       IN  IF pattern # null THEN pattern[1]
           ELSE BraillePattern(char, dotsToUnicode(<<2, 6>>), <<2, 6>>)

\* `for (const char of text) { ... result.push(...) }`
RECURSIVE convertLoop(_, _)
convertLoop(text, result) ==
  IF text = <<>> THEN result
  ELSE convertLoop(Tail(text), Append(result, convertChar(Head(text))))

\* Variant: the whitespace branches `continue` without pushing a record.
RECURSIVE convertLoopSkipBlank(_, _)
convertLoopSkipBlank(text, result) ==
  IF text = <<>> THEN result
  ELSE IF Head(text) \in {Space, Tab, Newline}
       THEN convertLoopSkipBlank(Tail(text), result)
       ELSE convertLoopSkipBlank(Tail(text),
                                 Append(result, convertChar(Head(text))))

convertToBrailleSkipBlank(text, language) == convertLoopSkipBlank(text, <<>>)

\* Variant: detectedLang gates the tables, a character of another script
\* than the requested one gets the fallback record.
convertCharGated(char, lang) ==
  LET own == IF char \in koreanPattern THEN "korean"
             ELSE IF char \in japanesePattern THEN "japanese"
             ELSE IF char \in alnumPattern THEN "english"
             ELSE lang
  IN  IF char \in {Space, Tab, Newline} \/ lang = "mixed" \/ own = lang
      THEN convertChar(char)
      ELSE BraillePattern(char, dotsToUnicode(<<2, 6>>), <<2, 6>>)

convertToBrailleGated(text, language) ==
  LET detectedLang == IF language # undefined THEN language
                      ELSE detectLanguage(text)
  IN  [i \in 1..Len(text) |-> convertCharGated(text[i], detectedLang)]

convertToBraille(text, language) ==
  LET detectedLang == IF language # undefined THEN language
                      ELSE detectLanguage(text)   \* computed, never read
  IN  convertLoop(text, <<>>)

(***************************************************************************)
(* Inputs.                                                                 *)
(***************************************************************************)
\* Characters with no entry in the table consulted for them, and the
\* neighbours of the class boundaries.
UnmappedSamples ==
  { 44032, 55203,          \* U+AC00, U+D7A3: first and last Hangul syllable
    44031, 55204,          \* just outside the Hangul block
    12364, 12352, 12543,   \* U+304C, U+3040, U+30FF: kana without an entry
    12351, 12544,          \* just outside the kana blocks
    8721, 8747, 8710,      \* U+2211, U+222B, U+2206 of the test suite
    13, 64, 91, 96, 123,   \* '\r', '@', '[', '`', '{'
    47, 60,                \* ASCII punctuation without an entry
    10240, 10274,          \* U+2800, U+2822: Braille cells themselves
    128512 }               \* U+1F600, above U+FFFF

Alphabet ==
  DOMAIN koreanBrailleMap \cup DOMAIN englishBrailleMap
    \cup DOMAIN japaneseBrailleMap \cup DOMAIN punctuationMap
    \cup {Space, Tab, Newline} \cup UnmappedSamples

\* One character of each kind, for the texts longer than one character.
CoreAlphabet == { 97, 85, 55, Space, Newline, 50504, 12354, 8721 }
  \* 'a', 'U', '7', ' ', '\n', U+C548, U+3042, U+2211

SeqsUpTo(S, n) == UNION { [1..k -> S] : k \in 0..n }

Texts == SeqsUpTo(Alphabet, 1) \cup SeqsUpTo(CoreAlphabet, MaxLen)

\* Dot lists: the dot numbers 1..8 and two values the switch ignores.
DotValues == 0..9
DotLists == SeqsUpTo(DotValues, MaxDots)

(***************************************************************************)
(* The state machine: one call of a public function on drawn arguments.    *)
(***************************************************************************)
VARIABLES
  op,            \* the function called: "convert", "detect" or "dots"
  pc,            \* "call" before the call, "done" after it
  argText,       \* the text argument
  argLanguage,   \* the language argument of convertToBraille
  argDots,       \* the dots argument of dotsToUnicode
  retPatterns,   \* what convertToBraille returned
  retLanguage,   \* what detectLanguage returned
  retUnicode     \* what dotsToUnicode returned

engineVars == <<op, pc, argText, argLanguage, argDots, retPatterns, retLanguage, retUnicode>>

\* No call of the engine is drawn: the state of the specifications about
\* the callers, the renderer and the component.
EngineIdle ==
  /\ op = "none" /\ pc = "done"
  /\ argText = <<>> /\ argLanguage = undefined /\ argDots = <<>>
  /\ retPatterns = <<>> /\ retLanguage = "" /\ retUnicode = 0

(***************************************************************************)
(* Callers of the engine and the arrays they hold (SpecShared).            *)
(***************************************************************************)
VARIABLES
  heap,          \* the arrays created so far: heap[a] is the array at address a
  held,          \* held[c]: the records caller c received last, dots by address
  lastCall       \* the call that returned last, with what it returned

heapVars == <<heap, held, lastCall>>

Callers == {"c1", "c2"}

\* before: the arrays that existed when a call of convertToBraille was made.
NoCall == [op |-> "none", arg |-> <<>>, ret |-> <<>>, before |-> <<>>]

HeapIdle ==
  /\ heap = <<>>
  /\ held = [c \in Callers |-> <<>>]
  /\ lastCall = NoCall

(***************************************************************************)
(* A call of BrailleRenderer.splitIntoLines (SpecRender).                  *)
(***************************************************************************)
VARIABLES
  splitPc,       \* "call" before the call, "done" after it, "none" elsewhere
  splitText,     \* the text whose records are split
  splitArg,      \* the patterns argument
  splitRet       \* the lines returned

renderVars == <<splitPc, splitText, splitArg, splitRet>>

RenderIdle ==
  /\ splitPc = "none" /\ splitText = <<>> /\ splitArg = <<>> /\ splitRet = <<>>

(***************************************************************************)
(* The state of the BrailleConverter component (SpecUI).                   *)
(***************************************************************************)
VARIABLES
  inputText,          \* useState('')
  language,           \* useState('auto')
  braillePatterns,    \* useState([])
  detectedLanguage,   \* useState('')
  renderOptions,      \* useState({...})
  error,              \* useState('')
  effectPending,      \* a dependency of the conversion effect changed
  owed,               \* state updates of the effect that no render applied yet
  timers,             \* the setTimeout callbacks not yet run, oldest first
  canvas,             \* canvasRef.current and what has been drawn on it
  lastRun,            \* patterns and renderOptions of the last conversion
  optionChanges       \* uses of the settings panel so far

uiVars == <<inputText, language, braillePatterns, detectedLanguage,
            renderOptions, error, effectPending, owed, timers, canvas, lastRun,
            optionChanges>>

NoCanvas == [mounted |-> FALSE, drawing |-> <<>>]

initialRenderOptions ==
  [cellWidth |-> 40, cellHeight |-> 60, dotRadius |-> 3, dotSpacing |-> 8,
   lineSpacing |-> 20, margin |-> 20, backgroundColor |-> "#ffffff",
   dotColor |-> "#000000", showGrid |-> FALSE, gridColor |-> "#e0e0e0"]

UiMounted ==
  /\ inputText = <<>> /\ language = "auto" /\ braillePatterns = <<>>
  /\ detectedLanguage = "" /\ renderOptions = initialRenderOptions
  /\ error = "" /\ owed = <<>> /\ timers = <<>> /\ canvas = NoCanvas
  /\ lastRun = <<>> /\ optionChanges = 0

UiIdle == UiMounted /\ effectPending = FALSE

vars == <<engineVars, heapVars, renderVars, uiVars>>

Init ==
  /\ HeapIdle /\ RenderIdle /\ UiIdle
  /\ pc = "call"
  /\ retPatterns = <<>>
  /\ retLanguage = ""
  /\ retUnicode = 0
  /\ \/ /\ op = "convert"
        /\ argText \in Texts
        /\ argLanguage \in Languages \cup {undefined}
        /\ argDots = <<>>
     \/ /\ op = "detect"
        /\ argText \in Texts
        /\ argLanguage = undefined
        /\ argDots = <<>>
     \/ /\ op = "dots"
        /\ argText = <<>>
        /\ argLanguage = undefined
        /\ argDots \in DotLists

ConvertToBraille ==
  /\ pc = "call" /\ op = "convert"
  /\ retPatterns' = convertToBraille(argText, argLanguage)
  /\ pc' = "done"
  /\ UNCHANGED <<op, argText, argLanguage, argDots, retLanguage, retUnicode>>
  /\ UNCHANGED <<heapVars, renderVars, uiVars>>

DetectLanguage ==
  /\ pc = "call" /\ op = "detect"
  /\ retLanguage' = detectLanguage(argText)
  /\ pc' = "done"
  /\ UNCHANGED <<op, argText, argLanguage, argDots, retPatterns, retUnicode>>
  /\ UNCHANGED <<heapVars, renderVars, uiVars>>

DotsToUnicode ==
  /\ pc = "call" /\ op = "dots"
  /\ retUnicode' = dotsToUnicode(argDots)
  /\ pc' = "done"
  /\ UNCHANGED <<op, argText, argLanguage, argDots, retPatterns, retLanguage>>
  /\ UNCHANGED <<heapVars, renderVars, uiVars>>

Next == ConvertToBraille \/ DetectLanguage \/ DotsToUnicode

Spec == Init /\ [][Next]_vars

Converted == pc = "done" /\ op = "convert"
Detected == pc = "done" /\ op = "detect"
Encoded == pc = "done" /\ op = "dots"

(***************************************************************************)
(* Vocabulary of the properties.                                           *)
(***************************************************************************)
Range(s) == { s[i] : i \in DOMAIN s }

Whitespace == {Space, Tab, Newline}

\* U+2800 + bitmask of a set of dot numbers: bit k-1 is set iff k is in S.
BitOf(k, S) == IF k \in S THEN 2 ^ (k - 1) ELSE 0
CodePointOf(S) ==
  BrailleBase + BitOf(1, S) + BitOf(2, S) + BitOf(3, S) + BitOf(4, S)
              + BitOf(5, S) + BitOf(6, S) + BitOf(7, S) + BitOf(8, S)

\* The scripts of the specification, by code point.
HangulSyllables == 44032..55203     \* U+AC00..U+D7A3
Kana == 12352..12543                \* U+3040..U+30FF
Letters == (65..90) \cup (97..122)  \* A-Z, a-z
Digits == 48..57                    \* 0-9

(***************************************************************************)
(* C1: convertToBraille returns one record per input character, in input   *)
(* order: as many records as characters, and the character field of        *)
(* record i is the i-th character of the text.                             *)
(***************************************************************************)
C1_OneRecordPerCharacter ==
  Converted =>
    /\ Len(retPatterns) = Len(argText)
    /\ \A i \in 1..Len(argText) : retPatterns[i].char = argText[i]

\* 'a', newline, U+2211: a letter, a blank and an unmapped character.
C1_Witness ==
  /\ Converted
  /\ argText = <<97, Newline, 8721>>
  /\ Len(retPatterns) = 3
  /\ retPatterns[2].char = Newline

(***************************************************************************)
(* C2: dotsToUnicode of a list of dot numbers is U+2800 + bitmask, bit k-1 *)
(* set iff k is a member of the list, whatever the order and the empty     *)
(* list giving U+2800.  The code adds a bit once per occurrence, so a list *)
(* that repeats a dot (as the table entry [6,1,3,6] of 'U' does) carries.  *)
(***************************************************************************)
C2_BitmaskOfMembers ==
  (Encoded /\ Range(argDots) \subseteq 1..8) =>
    retUnicode = CodePointOf(Range(argDots))

(***************************************************************************)
(* C3: in every record of convertToBraille the dots are pairwise distinct  *)
(* values in 1..8.  The entries of the uppercase letters U..Z, of the      *)
(* digits 3..9 and 0, and of two Hangul syllables repeat a dot.            *)
(***************************************************************************)
C3_DotsDistinct ==
  Converted =>
    \A i \in 1..Len(retPatterns) :
      LET dots == retPatterns[i].dots
      IN  /\ Range(dots) \subseteq 1..8
          /\ \A j, k \in 1..Len(dots) : j # k => dots[j] # dots[k]

(***************************************************************************)
(* C4: for a character other than space, tab and newline the unicode field *)
(* of its record is U+2800 + bitmask of the record's own dots.             *)
(***************************************************************************)
C4_UnicodeFromDots ==
  Converted =>
    \A i \in 1..Len(retPatterns) :
      argText[i] \notin Whitespace =>
        retPatterns[i].unicode = CodePointOf(Range(retPatterns[i].dots))

(***************************************************************************)
(* C5: detectLanguage is decided by which of the three scripts are present *)
(* in the text: "mixed" for two or more, the script's tag for exactly one, *)
(* "english" for none; the number of occurrences plays no part.            *)
(***************************************************************************)
ScriptsPresent(text) ==
  { tag \in {"korean", "japanese", "english"} :
      \E i \in 1..Len(text) :
        \/ tag = "korean" /\ text[i] \in HangulSyllables
        \/ tag = "japanese" /\ text[i] \in Kana
        \/ tag = "english" /\ text[i] \in Letters }

C5_PresenceBased ==
  Detected =>
    LET present == ScriptsPresent(argText)
    IN  /\ Cardinality(present) >= 2 => retLanguage = "mixed"
        /\ Cardinality(present) = 1 => retLanguage \in present
        /\ present = {} => retLanguage = "english"

\* U+C548 twice and one 'a': the majority script does not win.
C5_Witness ==
  /\ Detected
  /\ argText = <<50504, 50504, 97>>
  /\ retLanguage = "mixed"

(***************************************************************************)
(* C6: the language argument has no influence on the result: the records   *)
(* returned for a text are the same for 'korean', 'english', 'japanese'    *)
(* and for no language.                                                    *)
(***************************************************************************)
C6_LanguageIgnored ==
  Converted =>
    \A lang \in Languages \cup {undefined} :
      convertToBraille(argText, lang) = retPatterns

\* A Hangul syllable converted under 'english' still gets its Korean entry.
C6_Witness ==
  /\ Converted
  /\ argLanguage = "english"
  /\ argText = <<50504, 97>>
  /\ retPatterns[1].dots = <<1, 2, 4, 5, 6>>

(***************************************************************************)
(* C7: a character with no entry in the table consulted for it yields      *)
(* exactly one fallback record, dots [2,6], whose character field is the   *)
(* input character; the conversion always returns.                         *)
(***************************************************************************)
\* The table the classification chain consults for a character.
ConsultedTable(char) ==
  IF char \in HangulSyllables THEN koreanBrailleMap
  ELSE IF char \in Kana THEN japaneseBrailleMap
  ELSE IF char \in Letters \cup Digits THEN englishBrailleMap
  ELSE punctuationMap

HasEntry(char) == char \in DOMAIN ConsultedTable(char)

C7_FallbackRecord ==
  Converted =>
    /\ Len(retPatterns) = Len(argText)
    /\ \A i \in 1..Len(argText) :
         (argText[i] \notin Whitespace /\ ~HasEntry(argText[i])) =>
           /\ retPatterns[i].dots = <<2, 6>>
           /\ retPatterns[i].char = argText[i]

\* U+2211 between two mapped characters.
C7_Witness ==
  /\ Converted
  /\ argText = <<97, 8721, 85>>
  /\ retPatterns[2] = [char |-> 8721, unicode |-> 10274, dots |-> <<2, 6>>]

(***************************************************************************)
(* C8: a space or a tab yields empty dots and the unicode field ' ' (the   *)
(* character field keeps the input), a newline yields empty dots and the   *)
(* unicode field '\n'; no other character yields empty dots or a unicode   *)
(* field equal to space or newline.                                        *)
(***************************************************************************)
C8_WhitespaceRecords ==
  Converted =>
    \A i \in 1..Len(retPatterns) :
      LET char == argText[i]
          rec == retPatterns[i]
      IN  /\ char \in {Space, Tab} =>
               rec = [char |-> char, unicode |-> Space, dots |-> <<>>]
          /\ char = Newline =>
               rec = [char |-> Newline, unicode |-> Newline, dots |-> <<>>]
          /\ char \notin Whitespace =>
               /\ rec.dots # <<>>
               /\ rec.unicode \notin {Space, Newline}

C8_Witness ==
  /\ Converted
  /\ argText = <<Tab>>
  /\ retPatterns = <<[char |-> Tab, unicode |-> Space, dots |-> <<>>]>>

(***************************************************************************)
(* C9: an uppercase letter yields exactly one record, whose dot set is the *)
(* union of {6} and the dot set of the lowercase letter.                   *)
(***************************************************************************)
C9_UppercaseCell ==
  Converted =>
    /\ Len(retPatterns) = Len(argText)
    /\ \A i \in 1..Len(argText) :
         argText[i] \in 65..90 =>
           Range(retPatterns[i].dots) =
             {6} \cup Range(convertToBraille(<<argText[i] + 32>>, undefined)[1].dots)

\* 'U', whose lowercase letter has dot 6 itself.
C9_Witness ==
  /\ Converted
  /\ argText = <<85>>
  /\ retPatterns[1].dots = <<6, 1, 3, 6>>

(***************************************************************************)
(* C10: a digit yields exactly one record, whose dot set is the union of   *)
(* the numeric indicator {3,4,5,6} and the dot set of the letter of the    *)
(* same shape (1=a, ..., 9=i, 0=j).                                        *)
(***************************************************************************)
LetterOfDigit(char) == IF char = 48 THEN 106 ELSE char + 48

C10_DigitCell ==
  Converted =>
    /\ Len(retPatterns) = Len(argText)
    /\ \A i \in 1..Len(argText) :
         argText[i] \in Digits =>
           Range(retPatterns[i].dots) =
             {3, 4, 5, 6}
               \cup Range(convertToBraille(<<LetterOfDigit(argText[i])>>, undefined)[1].dots)

C10_Witness ==
  /\ Converted
  /\ argText = <<55>>
  /\ retPatterns[1].dots = <<3, 4, 5, 6, 1, 2, 4, 5>>


(***************************************************************************)
(* C11: for a character other than space, tab and newline the unicode      *)
(* field is one character of the Braille Patterns block U+2800..U+28FF:    *)
(* the summed bit values of no table entry carry past U+28FF.              *)
(***************************************************************************)
BraillePatterns == 10240..10495     \* U+2800..U+28FF

C11_UnicodeInBrailleBlock ==
  Converted =>
    \A i \in 1..Len(retPatterns) :
      argText[i] \notin Whitespace => retPatterns[i].unicode \in BraillePatterns

\* 'Y', the entry with the largest sum: 32+1+4+8+16+32 = 93.
C11_Witness ==
  /\ Converted
  /\ argText = <<89>>
  /\ retPatterns[1].dots = <<6, 1, 3, 4, 5, 6>>
  /\ retPatterns[1].unicode = 10333

(***************************************************************************)
(* C15: a character other than space, tab and newline consults exactly one *)
(* table, the first that matches in the order Hangul syllable, kana, ASCII *)
(* letter or digit, punctuation; with an entry there the dots are that     *)
(* entry, and a miss is not retried in another table.                      *)
(***************************************************************************)
C15_OneTableConsulted ==
  Converted =>
    \A i \in 1..Len(retPatterns) :
      LET char == argText[i]
      IN  char \notin Whitespace =>
            retPatterns[i].dots =
              IF HasEntry(char) THEN ConsultedTable(char)[char] ELSE <<2, 6>>

\* '!' is found in the punctuation table.
C15_Witness ==
  /\ Converted
  /\ argText = <<33>>
  /\ retPatterns[1].dots = <<2, 3, 5>>

(***************************************************************************)
(* C16: the jamo keys of the Korean table are unreachable: each of them    *)
(* gets the fallback record, dots [2,6], not its table entry.              *)
(***************************************************************************)
JamoKeys == DOMAIN koreanBrailleMap \ HangulSyllables

C16_JamoUnreachable ==
  Converted =>
    \A i \in 1..Len(retPatterns) :
      argText[i] \in JamoKeys =>
        /\ retPatterns[i].dots = <<2, 6>>
        /\ retPatterns[i].dots # koreanBrailleMap[argText[i]]

\* U+3131, whose table entry is [1, 4].
C16_Witness ==
  /\ Converted
  /\ argText = <<12593>>
  /\ 12593 \in JamoKeys
  /\ koreanBrailleMap[12593] = <<1, 4>>
  /\ retPatterns[1].dots = <<2, 6>>

(***************************************************************************)
(* C17: a record has unicode U+2822 if and only if its character is '?' or *)
(* has no entry in the table chosen for it; no other mapped character      *)
(* produces that code point.                                               *)
(***************************************************************************)
C17_FallbackCellOnlyForMisses ==
  Converted =>
    \A i \in 1..Len(retPatterns) :
      LET char == argText[i]
      IN  retPatterns[i].unicode = 10274
            <=> (char \notin Whitespace /\ (char = 63 \/ ~HasEntry(char)))

\* '?' itself.
C17_Witness ==
  /\ Converted
  /\ argText = <<63>>
  /\ HasEntry(63)
  /\ retPatterns[1].unicode = 10274


(***************************************************************************)
(* BrailleRenderer.splitIntoLines                                          *)
(***************************************************************************)
\* Variant: `currentLine = []` is left out after a line is pushed.
RECURSIVE splitLoopNoReset(_, _, _)
splitLoopNoReset(patterns, lines, currentLine) ==
  IF patterns = <<>> THEN [lines |-> lines, currentLine |-> currentLine]
  ELSE IF Head(patterns).char = Newline
       THEN splitLoopNoReset(Tail(patterns), Append(lines, currentLine), currentLine)
       ELSE splitLoopNoReset(Tail(patterns), lines,
                             Append(currentLine, Head(patterns)))

splitIntoLinesNoReset(patterns) ==
  LET end == splitLoopNoReset(patterns, <<>>, <<>>)
      lines == IF Len(end.currentLine) > 0
               THEN Append(end.lines, end.currentLine) ELSE end.lines
  IN  IF Len(lines) > 0 THEN lines ELSE << <<>> >>

\* `for (const pattern of patterns) { if (pattern.char === '\n') ... }`:
\* the lines pushed and the line being filled when the loop ends.
RECURSIVE splitLoop(_, _, _)
splitLoop(patterns, lines, currentLine) ==
  IF patterns = <<>> THEN [lines |-> lines, currentLine |-> currentLine]
  ELSE IF Head(patterns).char = Newline
       THEN splitLoop(Tail(patterns), Append(lines, currentLine), <<>>)
       ELSE splitLoop(Tail(patterns), lines, Append(currentLine, Head(patterns)))

\* Variant: the last line is pushed whether or not it is empty.
splitIntoLinesAlwaysPush(patterns) ==
  LET end == splitLoop(patterns, <<>>, <<>>)
  IN  Append(end.lines, end.currentLine)

splitIntoLines(patterns) ==
  LET end == splitLoop(patterns, <<>>, <<>>)
      lines == IF Len(end.currentLine) > 0
               THEN Append(end.lines, end.currentLine) ELSE end.lines
  IN  IF Len(lines) > 0 THEN lines ELSE << <<>> >>

MaxSplitLen == 4    \* longest text whose records are split

\* 'a', ' ', '\n', U+2211
SplitAlphabet == {97, Space, Newline, 8721}
SplitTexts == SeqsUpTo(SplitAlphabet, MaxSplitLen)

InitRender ==
  /\ EngineIdle /\ HeapIdle /\ UiIdle
  /\ splitPc = "call"
  /\ splitText \in SplitTexts
  /\ splitArg = convertToBraille(splitText, undefined)
  /\ splitRet = <<>>

SplitIntoLines ==
  /\ splitPc = "call"
  /\ splitRet' = splitIntoLines(splitArg)
  /\ splitPc' = "done"
  /\ UNCHANGED <<splitText, splitArg>>
  /\ UNCHANGED <<engineVars, heapVars, uiVars>>

NextRender == SplitIntoLines

SpecRender == InitRender /\ [][NextRender]_vars

SplitDone == splitPc = "done"

IsNewlineRecord(pattern) == pattern.char = Newline
NewlineRecord == [char |-> Newline, unicode |-> Newline, dots |-> <<>>]

RECURSIVE Concat(_)
Concat(lines) ==
  IF lines = <<>> THEN <<>> ELSE Head(lines) \o Concat(Tail(lines))

\* The lines with one newline record between each two neighbours.
RECURSIVE Join(_)
Join(lines) ==
  IF Len(lines) <= 1 THEN Concat(lines)
  ELSE Head(lines) \o <<NewlineRecord>> \o Join(Tail(lines))

(***************************************************************************)
(* C13: splitIntoLines cuts the records at every newline record: no line   *)
(* holds a newline record, the lines in order are the input without its    *)
(* newline records, and each line boundary is a newline record of the      *)
(* input, so records a newline separates are in different lines.           *)
(***************************************************************************)
C13_SplitAtNewlines ==
  SplitDone =>
    /\ \A l \in 1..Len(splitRet) :
         \A i \in 1..Len(splitRet[l]) : ~IsNewlineRecord(splitRet[l][i])
    /\ Concat(splitRet) = SelectSeq(splitArg, LAMBDA r : ~IsNewlineRecord(r))
    /\ \/ splitArg = Join(splitRet)
       \/ splitArg = Join(splitRet) \o <<NewlineRecord>>

\* "a\n" + U+2211 + "a": two lines, of one and of two records.
C13_Witness ==
  /\ SplitDone
  /\ splitText = <<97, Newline, 8721, 97>>
  /\ Len(splitRet) = 2
  /\ Len(splitRet[1]) = 1 /\ Len(splitRet[2]) = 2

(***************************************************************************)
(* C18: splitIntoLines returns at least one line, and the number of lines  *)
(* is the number of newline records, plus one when the records after the   *)
(* last newline record are non-empty or when there are no records at all.  *)
(***************************************************************************)
NewlinePositions(patterns) ==
  { i \in 1..Len(patterns) : IsNewlineRecord(patterns[i]) }

AfterLastNewline(patterns) ==
  LET nl == NewlinePositions(patterns)
      last == IF nl = {} THEN 0 ELSE CHOOSE i \in nl : \A j \in nl : j <= i
  IN  SubSeq(patterns, last + 1, Len(patterns))

C18_LineCount ==
  SplitDone =>
    /\ Len(splitRet) >= 1
    /\ Len(splitRet) =
         Cardinality(NewlinePositions(splitArg))
           + (IF AfterLastNewline(splitArg) # <<>> \/ splitArg = <<>> THEN 1 ELSE 0)

\* "a\n": the trailing newline opens no second line.
C18_Witness ==
  /\ SplitDone
  /\ splitText = <<97, Newline>>
  /\ Len(splitRet) = 1


(***************************************************************************)
(* The engine with its arrays as objects: several callers, each free to    *)
(* change the dots array of a record it holds.                             *)
(***************************************************************************)
MaxHeap == 3    \* arrays created in one behaviour

\* Variant: the tables are built once and kept, so an entry's array is the
\* same object in every call.
newArrayShared(h, site, dots) ==
  IF site[1] = "entry" /\ \E a \in 1..Len(h) : h[a].site = site
  THEN [heap |-> h, ref |-> CHOOSE a \in 1..Len(h) : h[a].site = site]
  ELSE [heap |-> Append(h, [site |-> site, dots |-> dots]), ref |-> Len(h) + 1]

\* An array literal is evaluated: a new array, at a new address.  The table
\* literals are local to convert*Char, so every lookup evaluates them anew.
\* site names the literal: <<"entry", char>>, <<"fallback", char>> or
\* <<"blank", char>>.
newArray(h, site, dots) ==
  [heap |-> Append(h, [site |-> site, dots |-> dots]), ref |-> Len(h) + 1]

\* One iteration of the loop of convertToBraille on the heap h: the record
\* pushed, its dots an address, and the heap after it.
convertCharOnHeap(h, char) ==
  LET value == convertChar(char)
      kind == IF char = Space \/ char = Tab \/ char = Newline THEN "blank"
              ELSE IF classifyChar(char) # null THEN "entry"
              ELSE "fallback"
      made == newArray(h, <<kind, char>>, value.dots)
      unicode == IF kind = "entry"
                 THEN dotsToUnicode(made.heap[made.ref].dots)
                 ELSE value.unicode
  IN  [heap |-> made.heap,
       pattern |-> [char |-> char, unicode |-> unicode, dots |-> made.ref]]

RECURSIVE convertLoopOnHeap(_, _, _)
convertLoopOnHeap(h, text, result) ==
  IF text = <<>> THEN [heap |-> h, result |-> result]
  ELSE LET step == convertCharOnHeap(h, Head(text))
       IN  convertLoopOnHeap(step.heap, Tail(text), Append(result, step.pattern))

\* The records as the caller reads them: each dots address replaced by the
\* array found there.
Deref(h, records) ==
  [i \in 1..Len(records) |->
     [char |-> records[i].char, unicode |-> records[i].unicode,
      dots |-> h[records[i].dots].dots]]

\* "a" and U+2211 + "a": a table entry, and the fallback literal before it.
SharedTexts == { <<97>>, <<8721, 97>> }

InitShared ==
  /\ EngineIdle /\ RenderIdle /\ UiIdle
  /\ HeapIdle

\* Caller c calls convertToBraille(text).
SharedConvert(c, text) ==
  /\ Len(heap) + Len(text) <= MaxHeap
  /\ LET out == convertLoopOnHeap(heap, text, <<>>)
     IN  /\ heap' = out.heap
         /\ held' = [held EXCEPT ![c] = out.result]
         /\ lastCall' = [op |-> "convert", arg |-> text,
                         ret |-> Deref(out.heap, out.result), before |-> heap]
  /\ UNCHANGED <<engineVars, renderVars, uiVars>>

\* Caller c empties the dots array of the i-th record it holds
\* (`dots.length = 0`).
SharedClearDots(c, i) ==
  /\ heap[held[c][i].dots].dots # <<>>
  /\ heap' = [heap EXCEPT ![held[c][i].dots].dots = <<>>]
  /\ UNCHANGED <<held, lastCall>>
  /\ UNCHANGED <<engineVars, renderVars, uiVars>>

\* Caller c overwrites the first dot of the i-th record it holds
\* (`dots[0] = 8`).
SharedWriteDot(c, i) ==
  /\ heap[held[c][i].dots].dots # <<>>
  /\ heap[held[c][i].dots].dots[1] # 8
  /\ heap' = [heap EXCEPT ![held[c][i].dots].dots[1] = 8]
  /\ UNCHANGED <<held, lastCall>>
  /\ UNCHANGED <<engineVars, renderVars, uiVars>>

\* Caller c calls detectLanguage(text).
SharedDetect(c, text) ==
  /\ lastCall' = [op |-> "detect", arg |-> text, ret |-> detectLanguage(text),
                  before |-> <<>>]
  /\ UNCHANGED <<heap, held>>
  /\ UNCHANGED <<engineVars, renderVars, uiVars>>

\* Caller c calls dotsToUnicode on the dots of the i-th record it holds.
SharedDotsToUnicode(c, i) ==
  /\ lastCall' = [op |-> "dots", arg |-> heap[held[c][i].dots].dots,
                  ret |-> dotsToUnicode(heap[held[c][i].dots].dots),
                  before |-> <<>>]
  /\ UNCHANGED <<heap, held>>
  /\ UNCHANGED <<engineVars, renderVars, uiVars>>

NextShared ==
  \/ \E c \in Callers, text \in SharedTexts : SharedConvert(c, text)
  \/ \E c \in Callers : \E i \in 1..Len(held[c]) : SharedClearDots(c, i)
  \/ \E c \in Callers : \E i \in 1..Len(held[c]) : SharedWriteDot(c, i)
  \/ \E c \in Callers, text \in SharedTexts : SharedDetect(c, text)
  \/ \E c \in Callers : \E i \in 1..Len(held[c]) : SharedDotsToUnicode(c, i)

SpecShared == InitShared /\ [][NextShared]_vars

(***************************************************************************)
(* C12: the engine holds no shared mutable state: whatever calls and       *)
(* whatever changes of received dots arrays came before, a call returns    *)
(* what the same call returns alone; no array is reachable from two held   *)
(* records.                                                                *)
(***************************************************************************)
C12_NoSharedState ==
  /\ lastCall.op = "convert" =>
       lastCall.ret = convertToBraille(lastCall.arg, undefined)
  /\ lastCall.op = "detect" => lastCall.ret = detectLanguage(lastCall.arg)
  /\ lastCall.op = "dots" => lastCall.ret = dotsToUnicode(lastCall.arg)
  /\ \A c, d \in Callers :
       \A i \in 1..Len(held[c]), j \in 1..Len(held[d]) :
         held[c][i].dots = held[d][j].dots => (c = d /\ i = j)

\* convertToBraille("a") returned dots [1] although an array made for the
\* entry of 'a' by an earlier call had been changed by then.
C12_Witness ==
  /\ lastCall.op = "convert"
  /\ lastCall.arg = <<97>>
  /\ lastCall.ret[1].dots = <<1>>
  /\ \E a \in 1..Len(lastCall.before) :
       /\ lastCall.before[a].site = <<"entry", 97>>
       /\ lastCall.before[a].dots # <<1>>


(***************************************************************************)
(* The BrailleConverter component: its handlers, its conversion effect and *)
(* the canvas renderings the effect schedules.                             *)
(***************************************************************************)
MaxTimers == 2          \* setTimeout callbacks pending at once
MaxOptionChanges == 1   \* uses of the settings panel

\* String.prototype.trim: the WhiteSpace and LineTerminator code points.
TrimWhitespace ==
  {9, 10, 11, 12, 13, 32, 160, 5760, 8232, 8233, 8239, 8287, 12288, 65279}
    \cup (8192..8202)

RECURSIVE trimStart(_)
trimStart(text) ==
  IF text # <<>> /\ Head(text) \in TrimWhitespace THEN trimStart(Tail(text))
  ELSE text

RECURSIVE trimEnd(_)
trimEnd(text) ==
  IF text # <<>> /\ text[Len(text)] \in TrimWhitespace
  THEN trimEnd(SubSeq(text, 1, Len(text) - 1))
  ELSE text

trim(text) == trimEnd(trimStart(text))

\* BrailleRenderer.renderToCanvas: the canvas is resized, which clears it,
\* the background is filled, the grid drawn if asked for, and every cell is
\* drawn with renderBrailleCell; a cell whose char is ' ' draws nothing.
renderToCanvas(patterns, options) ==
  LET opts == options
      lines == splitIntoLines(patterns)
      lengths == { Len(lines[l]) : l \in 1..Len(lines) }
      maxLineLength == CHOOSE m \in lengths : \A n \in lengths : n <= m
  IN  [width |-> maxLineLength * opts.cellWidth + opts.margin * 2,
       height |-> Len(lines) * (opts.cellHeight + opts.lineSpacing)
                    + opts.margin * 2,
       backgroundColor |-> opts.backgroundColor,
       grid |-> IF opts.showGrid THEN <<opts.gridColor>> ELSE <<>>,
       cellWidth |-> opts.cellWidth,
       cellHeight |-> opts.cellHeight,
       lineSpacing |-> opts.lineSpacing,
       dotRadius |-> opts.dotRadius,
       dotColor |-> opts.dotColor,
       cells |-> [l \in 1..Len(lines) |->
                    [i \in 1..Len(lines[l]) |->
                       IF lines[l][i].char = Space THEN <<>>
                       ELSE lines[l][i].dots]]]

\* The commit of a render: the canvas element exists while
\* braillePatterns.length > 0; a canvas that stays mounted keeps its drawing.
commitCanvas(patterns, cv) ==
  IF Len(patterns) > 0
  THEN IF cv.mounted THEN cv ELSE [mounted |-> TRUE, drawing |-> <<>>]
  ELSE NoCanvas

\* The state updates of the effect that no render has applied yet: a later
\* call of the same setter replaces an earlier one.
enqueue(queue, update) ==
  IF queue = <<>> THEN <<update>>
  ELSE <<[braillePatterns |-> update.braillePatterns,
          detectedLanguage |-> IF update.detectedLanguage # <<>>
                               THEN update.detectedLanguage
                               ELSE queue[1].detectedLanguage,
          error |-> update.error]>>

\* Variant: inputText is missing from the dependency list.
effectDepsNoText(text, lang) == <<lang>>

\* Variant: language is missing from the dependency list.
effectDepsNoLanguage(text, lang) == <<text>>

\* The dependencies of the effect that are compared by value.  (renderOptions,
\* the third one, is a new object after every setRenderOptions.)
effectDeps(text, lang) == <<text, lang>>

\* Variant: the newest callback runs first.
dueTimerNewest(queue) == Len(queue)

\* The callback that runs next: all have the delay 100, so the oldest.
dueTimer(queue) == 1

\* The render of the state an effect run queued is queued when that run
\* registers its callback, 100 ms before the callback is due: once it is done,
\* every registered callback may run.
afterRender(queue) == [k \in 1..Len(queue) |-> [queue[k] EXCEPT !.due = TRUE]]

\* "", " ", "a", U+C548 + "\na"
UITexts == { <<>>, <<Space>>, <<97>>, <<50504, Newline, 97>> }
UILanguages == {"auto", "english"}   \* two of the four values of the select

\* The controls of the settings panel: the option, event.target.value, and
\* the second argument of onChange (<<>> when the control passes none).
OptionEvents ==
  { <<"cellWidth", 50, <<50>>>>, <<"cellHeight", 80, <<80>>>>,
    <<"dotRadius", 5, <<5>>>>, <<"lineSpacing", 10, <<10>>>>,
    <<"showGrid", "on", <<TRUE>>>>, <<"showGrid", "on", <<FALSE>>>>,
    <<"backgroundColor", "#ffff00", <<>>>>, <<"dotColor", "#ff0000", <<>>>> }

InitUI ==
  /\ EngineIdle /\ HeapIdle /\ RenderIdle
  /\ UiMounted
  /\ effectPending = TRUE     \* the effect of the first render

\* onChange of the text field, with the render that follows the event.
handleInputChange(value) ==
  /\ ~effectPending
  /\ value # inputText
  /\ inputText' = value
  /\ effectPending' = (effectDeps(value, language) # effectDeps(inputText, language))
  /\ UNCHANGED <<language, braillePatterns, detectedLanguage, renderOptions,
                 error, owed, timers, canvas, lastRun, optionChanges>>
  /\ UNCHANGED <<engineVars, heapVars, renderVars>>

\* onChange of the language select, with the render that follows the event.
handleLanguageChange(value) ==
  /\ ~effectPending
  /\ value # language
  /\ language' = value
  /\ effectPending' = (effectDeps(inputText, value) # effectDeps(inputText, language))
  /\ UNCHANGED <<inputText, braillePatterns, detectedLanguage, renderOptions,
                 error, owed, timers, canvas, lastRun, optionChanges>>
  /\ UNCHANGED <<engineVars, heapVars, renderVars>>

\* The clear button, disabled while inputText.trim() is empty, with the render
\* that follows the event.  Its setBraillePatterns, setDetectedLanguage and
\* setError come after the ones the effect has queued and replace them.
handleClear ==
  /\ ~effectPending
  /\ trim(inputText) # <<>>
  /\ inputText' = <<>>
  /\ braillePatterns' = <<>>
  /\ detectedLanguage' = ""
  /\ error' = ""
  /\ owed' = <<>>
  /\ timers' = afterRender(timers)
  /\ canvas' = commitCanvas(<<>>, canvas)
  /\ effectPending' = (effectDeps(<<>>, language) # effectDeps(inputText, language))
  /\ UNCHANGED <<language, renderOptions, lastRun, optionChanges>>
  /\ UNCHANGED <<engineVars, heapVars, renderVars>>

\* A control of the settings panel: handleRenderOptionChange(option)(event,
\* value), with the render that follows the event.
handleRenderOptionChange(option, targetValue, value) ==
  /\ ~effectPending
  /\ optionChanges < MaxOptionChanges
  /\ optionChanges' = optionChanges + 1
  /\ renderOptions' =
       [renderOptions EXCEPT ![option] =
          IF value # <<>> THEN value[1] ELSE targetValue]
  /\ effectPending' = TRUE
  /\ UNCHANGED <<inputText, language, braillePatterns, detectedLanguage,
                 error, owed, timers, canvas, lastRun>>
  /\ UNCHANGED <<engineVars, heapVars, renderVars>>

\* The callback of the conversion effect: it queues state updates and
\* registers the rendering; the state changes with a later render.
ConversionEffect ==
  /\ effectPending
  /\ effectPending' = FALSE
  /\ IF trim(inputText) # <<>>
     THEN LET selectedLang == IF language = "auto" THEN undefined ELSE language
              patterns == convertToBraille(inputText, selectedLang)
          IN  /\ Len(timers) < MaxTimers
              /\ owed' = enqueue(owed,
                   [braillePatterns |-> patterns,
                    detectedLanguage |->
                      IF language = "auto" THEN <<detectLanguage(inputText)>>
                      ELSE <<>>,
                    error |-> ""])
              /\ timers' = Append(timers, [patterns |-> patterns,
                                           options |-> renderOptions,
                                           due |-> FALSE])
              /\ lastRun' = <<[patterns |-> patterns, options |-> renderOptions]>>
     ELSE /\ owed' = enqueue(owed,
                   [braillePatterns |-> <<>>, detectedLanguage |-> <<"">>,
                    error |-> ""])
          /\ UNCHANGED <<timers, lastRun>>
  /\ UNCHANGED <<inputText, language, braillePatterns, detectedLanguage,
                 renderOptions, error, canvas, optionChanges>>
  /\ UNCHANGED <<engineVars, heapVars, renderVars>>

\* The render of the state the effect has set, and its commit.
Render ==
  /\ owed # <<>>
  /\ braillePatterns' = owed[1].braillePatterns
  /\ detectedLanguage' = IF owed[1].detectedLanguage # <<>>
                         THEN owed[1].detectedLanguage[1]
                         ELSE detectedLanguage
  /\ error' = owed[1].error
  /\ canvas' = commitCanvas(owed[1].braillePatterns, canvas)
  /\ owed' = <<>>
  /\ timers' = afterRender(timers)
  /\ UNCHANGED <<inputText, language, renderOptions, effectPending,
                 lastRun, optionChanges>>
  /\ UNCHANGED <<engineVars, heapVars, renderVars>>

\* A setTimeout callback runs, 100 ms after its registration and so after the
\* render queued at its registration: `if (canvasRef.current)
\* renderToCanvas(...)`.
TimerFires ==
  /\ timers # <<>>
  /\ LET k == dueTimer(timers)
         t == timers[k]
     IN  /\ t.due
         /\ canvas' = IF canvas.mounted
                      THEN [mounted |-> TRUE,
                            drawing |-> <<renderToCanvas(t.patterns, t.options)>>]
                      ELSE canvas
         /\ timers' = SubSeq(timers, 1, k - 1) \o SubSeq(timers, k + 1, Len(timers))
  /\ UNCHANGED <<inputText, language, braillePatterns, detectedLanguage,
                 renderOptions, error, effectPending, owed, lastRun,
                 optionChanges>>
  /\ UNCHANGED <<engineVars, heapVars, renderVars>>

NextUI ==
  \/ \E value \in UITexts : handleInputChange(value)
  \/ \E value \in UILanguages : handleLanguageChange(value)
  \/ handleClear
  \/ \E e \in OptionEvents : handleRenderOptionChange(e[1], e[2], e[3])
  \/ ConversionEffect
  \/ Render
  \/ TimerFires

SpecUI == InitUI /\ [][NextUI]_vars

\* The conversion effect of the last change has run and the state it set is
\* rendered.
EffectDone == ~effectPending /\ owed = <<>>

(***************************************************************************)
(* C14 as stated: once the effect of the last change has run, the          *)
(* displayed braillePatterns equal convertToBraille(inputText).  It fails  *)
(* for a text of whitespace only, which the effect answers with no record. *)
(***************************************************************************)
C14_PatternsAreConversion ==
  EffectDone => braillePatterns = convertToBraille(inputText, undefined)

(***************************************************************************)
(* C14, amended: once the effect of the last change has run, the displayed *)
(* braillePatterns equal convertToBraille(inputText) when inputText.trim() *)
(* is not empty, and are empty when it is.                                 *)
(***************************************************************************)
C14_PatternsAreConversionUnlessBlank ==
  EffectDone =>
    braillePatterns =
      IF trim(inputText) # <<>> THEN convertToBraille(inputText, undefined)
      ELSE <<>>

\* After a text change, a language selection and a render-option change.
C14_Witness ==
  /\ EffectDone
  /\ inputText = <<50504, Newline, 97>>
  /\ language = "english"
  /\ renderOptions.showGrid
  /\ Len(braillePatterns) = 3
  /\ braillePatterns[3].dots = <<1>>

(***************************************************************************)
(* C19: once the effect has run, detectedLanguage is detectLanguage of the *)
(* current text whenever the selection is 'auto' and the text is not       *)
(* blank, and is empty whenever the text is blank.                         *)
(***************************************************************************)
C19_DetectedLanguageFresh ==
  EffectDone =>
    /\ (language = "auto" /\ trim(inputText) # <<>>) =>
         detectedLanguage = detectLanguage(inputText)
    /\ trim(inputText) = <<>> => detectedLanguage = ""

\* 'auto' again, on a text that is not the one detected first: a canvas
\* drawing of another text is still there.
C19_Witness ==
  /\ EffectDone
  /\ language = "auto"
  /\ inputText = <<50504, Newline, 97>>
  /\ detectedLanguage = "mixed"
  /\ canvas.mounted /\ canvas.drawing # <<>>
  /\ Len(canvas.drawing[1].cells) = 1

(***************************************************************************)
(* C20: the renderings scheduled by the effect are never cancelled and run *)
(* in the order they were scheduled, so once none is pending and a canvas  *)
(* is mounted, the canvas holds the rendering of the patterns and render   *)
(* options of the most recent conversion.                                  *)
(***************************************************************************)
C20_CanvasShowsLastConversion ==
  (timers = <<>> /\ canvas.mounted) =>
    /\ lastRun # <<>>
    /\ canvas.drawing = <<renderToCanvas(lastRun[1].patterns, lastRun[1].options)>>

\* The renderings of a text and of a render-option change have run, the
\* canvas shows the later one.
C20_Witness ==
  /\ timers = <<>>
  /\ canvas.mounted
  /\ inputText = <<50504, Newline, 97>>
  /\ renderOptions.showGrid
  /\ lastRun # <<>> /\ lastRun[1].options.showGrid
  /\ canvas.drawing = <<renderToCanvas(braillePatterns, renderOptions)>>
  /\ Len(canvas.drawing[1].cells) = 2

====
